---- MODULE Spec2Model ----
(***************************************************************************)
(* Tech-stack voting / selection engine of chingu-dashboard-be             *)
(* (TechsService).  Every request is an independent task.  Each awaited    *)
(* storage call of a handler is a function from the store and the task's   *)
(* locals to the new store and locals; a task takes one such step at a     *)
(* time (requests interleave between their storage calls), or a handler    *)
(* runs from call to response with no other request in between.            *)
(***************************************************************************)
EXTENDS Integers, Sequences, FiniteSets, TLC

\* ------------------------------------------------------------------ bounds
NReq == 2           \* request tasks that may be in flight at once
MaxItems == 2       \* ids the teamTechStackItem autoincrement may hand out
NNames == 1         \* distinct tech names a proposal may carry
NOtherItems == 1    \* items of the selection catalog in its second category

\* ------------------------------------------------------- program constants
MAX_SELECTION_COUNT == 3

\* --------------------------------------------------------------- universes
Req == 1..NReq
ItemIds == 1..MaxItems
Names == 1..NNames
Categories == {1}
Users == {1, 2}
Teams == {1, 2}

\* voyageTeamMember rows (read-only for this service)
VoyageTeamMembers ==
    { [id |-> 1, userId |-> 1, voyageTeamId |-> 1],
      [id |-> 2, userId |-> 2, voyageTeamId |-> 1],
      [id |-> 3, userId |-> 2, voyageTeamId |-> 2] }

MemberIds == { m.id : m \in VoyageTeamMembers }

NoItem == [none |-> TRUE]
NoDto == << >>

\* referential action of teamTechStackItemVote.teamTechId -> teamTechStackItem
OnDeleteModes == {"Cascade", "Restrict"}

VARIABLES items, votes, nextId, fkOnDelete, req

vars == <<items, votes, nextId, fkOnDelete, req>>

\* the store as one value
DB == [items |-> items, votes |-> votes, nextId |-> nextId, fk |-> fkOnDelete]

\* ------------------------------------------------------------ store helpers
ItemExists(db, i) == i \in DOMAIN db.items /\ db.items[i] # NoItem

Voters(db, i) == { m \in MemberIds : db.votes[<<i, m>>] >= 1 }

\* rows of teamTechStackItemVote with teamTechId = i
VoteCount(db, i) ==
    LET RECURSIVE Sum(_)
        Sum(S) == IF S = {} THEN 0
                  ELSE LET m == CHOOSE x \in S : TRUE
                       IN db.votes[<<i, m>>] + Sum(S \ {m})
    IN Sum(MemberIds)

\* unique key of teamTechStackItem: (name, voyageTeamId, categoryId)
ItemKeyTaken(db, name, team, cat) ==
    \E i \in DOMAIN db.items :
        /\ db.items[i] # NoItem
        /\ db.items[i].name = name
        /\ db.items[i].voyageTeamId = team
        /\ db.items[i].categoryId = cat

\* prisma.voyageTeamMember.findUnique({userVoyageId}) ; 0 stands for null
findVoyageMemberId(user, team) ==
    IF \E m \in VoyageTeamMembers : m.userId = user /\ m.voyageTeamId = team
    THEN (CHOOSE m \in VoyageTeamMembers :
              m.userId = user /\ m.voyageTeamId = team).id
    ELSE 0

\* ------------------------------------------------- storage calls (prisma)
\* the table without its unique key on (teamTechId, teamMemberId)
VoteCreateError_noUnique(db, i, m) ==
    IF ~ItemExists(db, i) THEN "P2003" ELSE "none"

\* the table without its foreign key to teamTechStackItem
VoteCreateError_noForeignKey(db, i, m) ==
    IF db.votes[<<i, m>>] >= 1 THEN "P2002" ELSE "none"

\* error code of teamTechStackItemVote.create({teamTechId, teamMemberId})
VoteCreateError(db, i, m) ==
    IF ~ItemExists(db, i) THEN "P2003"
    ELSE IF db.votes[<<i, m>>] >= 1 THEN "P2002"
    ELSE "none"

VoteCreated(db, i, m) ==
    [db EXCEPT !.votes = [db.votes EXCEPT ![<<i, m>>] = @ + 1]]

\* error code of teamTechStackItem.create({name, categoryId, voyageTeamId})
ItemCreateError(db, name, team, cat) ==
    IF ItemKeyTaken(db, name, team, cat) THEN "P2002" ELSE "none"

NewItem(name, team, cat) ==
    [name |-> name, voyageTeamId |-> team, categoryId |-> cat,
     isSelected |-> FALSE]

ItemCreated(db, name, team, cat) ==
    [db EXCEPT !.items = [db.items EXCEPT
                             ![db.nextId] = NewItem(name, team, cat)],
               !.nextId = db.nextId + 1]

\* error code of teamTechStackItemVote.delete({userTeamStackVote})
VoteDeleteError(db, i, m) ==
    IF db.votes[<<i, m>>] = 0 THEN "P2025" ELSE "none"

VoteDeleted(db, i, m) ==
    [db EXCEPT !.votes = [db.votes EXCEPT ![<<i, m>>] = @ - 1]]

\* error code of teamTechStackItem.delete({id})
ItemDeleteError(db, i) ==
    IF ~ItemExists(db, i) THEN "P2025"
    ELSE IF VoteCount(db, i) > 0 /\ db.fk = "Restrict" THEN "P2003"
    ELSE "none"

\* the item row goes, and with it (onDelete: Cascade) the votes that name it
ItemDeleted(db, i) ==
    [db EXCEPT !.items = [db.items EXCEPT ![i] = NoItem],
               !.votes = [p \in DOMAIN db.votes |->
                             IF p[1] = i THEN 0 ELSE db.votes[p]]]

\* ----------------------------------------------------------- request tasks
Idle == [pc |-> "idle", op |-> "none", user |-> 0, team |-> 0, tech |-> 0,
         name |-> 0, cat |-> 0, member |-> 0, dto |-> NoDto, out |-> "none",
         guard |-> "none", result |-> {}]

\* a handler's step ends in a response, or at its next storage call
Done(db, rec, outcome) ==
    [db |-> db, rec |-> [rec EXCEPT !.pc = "done", !.out = outcome]]

To(db, rec, label) ==
    [db |-> db, rec |-> [rec EXCEPT !.pc = label]]

\* ------------------------------------------------------- addNewTeamTech
addNewTeamTech_call(user, team, name, cat) ==
    [Idle EXCEPT !.pc = "findMember", !.op = "addNewTeamTech", !.user = user,
                 !.team = team, !.name = name, !.cat = cat]

addNewTeamTech_findMember(db, rec) ==
    LET member == findVoyageMemberId(rec.user, rec.team)
    IN IF member = 0
       THEN Done(db, rec, "BadRequest")
       ELSE To(db, [rec EXCEPT !.member = member], "createItem")

\* a catch block that rethrows the unique violation of the item as it is
addNewTeamTech_createItem_rethrow(db, rec) ==
    IF ItemCreateError(db, rec.name, rec.team, rec.cat) = "P2002"
    THEN Done(db, rec, "Error")
    ELSE To(ItemCreated(db, rec.name, rec.team, rec.cat),
            [rec EXCEPT !.tech = db.nextId], "createVote")

addNewTeamTech_createItem(db, rec) ==
    IF ItemCreateError(db, rec.name, rec.team, rec.cat) = "P2002"
    THEN Done(db, rec, "Conflict")
    ELSE To(ItemCreated(db, rec.name, rec.team, rec.cat),
            [rec EXCEPT !.tech = db.nextId], "createVote")

addNewTeamTech_createVote(db, rec) ==
    LET err == VoteCreateError(db, rec.tech, rec.member)
    IN IF err = "none"
       THEN Done(VoteCreated(db, rec.tech, rec.member), rec, "ok")
       ELSE Done(db, rec, IF err = "P2002" THEN "Conflict" ELSE "Error")

\* --------------------------------------------------- addExistingTechVote
addExistingTechVote_call(user, team, tech) ==
    [Idle EXCEPT !.pc = "findItem", !.op = "addExistingTechVote",
                 !.user = user, !.team = team, !.tech = tech]

addExistingTechVote_findItem(db, rec) ==
    IF ~ItemExists(db, rec.tech)
    THEN Done(db, rec, "BadRequest")
    ELSE To(db, rec, "findMember")

addExistingTechVote_findMember(db, rec) ==
    LET member == findVoyageMemberId(rec.user, rec.team)
    IN IF member = 0
       THEN Done(db, rec, "BadRequest")
       ELSE To(db, [rec EXCEPT !.member = member], "createVote")

\* a catch block that answers a unique violation like a created vote
addExistingTechVote_createVote_swallow(db, rec) ==
    LET err == VoteCreateError(db, rec.tech, rec.member)
    IN IF err = "none"
       THEN Done(VoteCreated(db, rec.tech, rec.member), rec, "ok")
       ELSE Done(db, rec, IF err = "P2002" THEN "ok" ELSE "Error")

addExistingTechVote_createVote(db, rec) ==
    LET err == VoteCreateError(db, rec.tech, rec.member)
    IN IF err = "none"
       THEN Done(VoteCreated(db, rec.tech, rec.member), rec, "ok")
       ELSE Done(db, rec, IF err = "P2002" THEN "Conflict" ELSE "Error")

\* ------------------------------------------------------------ removeVote
removeVote_call(user, team, tech) ==
    [Idle EXCEPT !.pc = "findMember", !.op = "removeVote", !.user = user,
                 !.team = team, !.tech = tech]

removeVote_findMember(db, rec) ==
    LET member == findVoyageMemberId(rec.user, rec.team)
    IN IF member = 0
       THEN Done(db, rec, "BadRequest")
       ELSE To(db, [rec EXCEPT !.member = member], "deleteVote")

\* a delete that does not fail on a missing vote (deleteMany)
removeVote_deleteVote_deleteMany(db, rec) ==
    IF VoteDeleteError(db, rec.tech, rec.member) = "P2025"
    THEN To(db, rec, "findItem")
    ELSE To(VoteDeleted(db, rec.tech, rec.member), rec, "findItem")

removeVote_deleteVote(db, rec) ==
    IF VoteDeleteError(db, rec.tech, rec.member) = "P2025"
    THEN Done(db, rec, "NotFound")
    ELSE To(VoteDeleted(db, rec.tech, rec.member), rec, "findItem")

\* length <= 1
LastVoteGone_offByOne(db, i) == VoteCount(db, i) <= 1

\* teamTechItem.teamTechStackItemVotes.length === 0
LastVoteGone(db, i) == VoteCount(db, i) = 0

\* the handler without its delete of the item
removeVote_findItem_noCascade(db, rec) ==
    IF ~ItemExists(db, rec.tech)
    THEN Done(db, rec, "Error")
    ELSE Done(db, rec, "voteDeleted")

\* a null teamTechItem makes the property read throw a TypeError, which the
\* catch block rethrows
removeVote_findItem(db, rec) ==
    IF ~ItemExists(db, rec.tech)
    THEN Done(db, rec, "Error")
    ELSE IF LastVoteGone(db, rec.tech)
         THEN To(db, rec, "deleteItem")
         ELSE Done(db, rec, "voteDeleted")

removeVote_deleteItem(db, rec) ==
    LET err == ItemDeleteError(db, rec.tech)
    IN IF err = "none"
       THEN Done(ItemDeleted(db, rec.tech), rec, "voteAndItemDeleted")
       ELSE Done(db, rec, IF err = "P2025" THEN "NotFound" ELSE "Error")

\* --------------------------------------------- updateTechStackSelections
\* category.techs.reduce((acc, tech) => acc + (tech.isSelected ? 1 : 0), 0)
RECURSIVE selectCount(_)
selectCount(techs) ==
    IF techs = << >> THEN 0
    ELSE (IF Head(techs).isSelected THEN 1 ELSE 0) + selectCount(Tail(techs))

\* selectCount > MAX_SELECTION_COUNT + 1
ExceedsCap_offByOne(techs) == selectCount(techs) > MAX_SELECTION_COUNT + 1

ExceedsCap(techs) == selectCount(techs) > MAX_SELECTION_COUNT

\* categories.forEach(category => category.techs.forEach(tech => push(tech)))
RECURSIVE techsArray(_)
techsArray(categories) ==
    IF categories = << >> THEN << >>
    ELSE Head(categories).techs \o techsArray(Tail(categories))

updateTechStackSelections_call(user, team, dto) ==
    [Idle EXCEPT !.pc = "validate", !.op = "updateTechStackSelections",
                 !.user = user, !.team = team, !.dto = dto]

\* the validation without the member lookup
updateTechStackSelections_validate_noGate(db, rec) ==
    IF \E k \in 1..Len(rec.dto) : ExceedsCap(rec.dto[k].techs)
    THEN Done(db, rec, "BadRequest")
    ELSE To(db, rec, "transaction")

\* the cap is checked category by category before the first storage call,
\* the member lookup
updateTechStackSelections_validate(db, rec) ==
    IF \E k \in 1..Len(rec.dto) : ExceedsCap(rec.dto[k].techs)
    THEN Done(db, rec, "BadRequest")
    ELSE LET member == findVoyageMemberId(rec.user, rec.team)
         IN IF member = 0
            THEN Done(db, rec, "BadRequest")
            ELSE To(db, [rec EXCEPT !.member = member], "transaction")

\* updates that write isSelected = true only and skip the other entries
RECURSIVE UpdateAll_selectOnly(_, _)
UpdateAll_selectOnly(its, techs) ==
    IF techs = << >> THEN [items |-> its, failed |-> FALSE]
    ELSE LET tech == Head(techs)
         IN IF ~(tech.techId \in DOMAIN its /\ its[tech.techId] # NoItem)
            THEN [items |-> its, failed |-> TRUE]
            ELSE UpdateAll_selectOnly(
                     [its EXCEPT ![tech.techId].isSelected =
                                     @ \/ tech.isSelected],
                     Tail(techs))

\* teamTechStackItem.update({where: {id}, data: {isSelected}}) one after the
\* other; failed is set by the first update whose record does not exist
RECURSIVE UpdateAll(_, _)
UpdateAll(its, techs) ==
    IF techs = << >> THEN [items |-> its, failed |-> FALSE]
    ELSE LET tech == Head(techs)
         IN IF ~(tech.techId \in DOMAIN its /\ its[tech.techId] # NoItem)
            THEN [items |-> its, failed |-> TRUE]
            ELSE UpdateAll([its EXCEPT ![tech.techId].isSelected =
                                           tech.isSelected],
                           Tail(techs))

\* the updates one by one outside a transaction, so that those made
\* before the failed one stay
updateTechStackSelections_transaction_noRollback(db, rec) ==
    LET res == UpdateAll(db.items, techsArray(rec.dto))
    IN Done([db EXCEPT !.items = res.items], rec,
            IF res.failed THEN "Error" ELSE "ok")

\* prisma.$transaction([...]): every update, or on a failed one none (the
\* P2025 of the failed update is not caught by the handler)
updateTechStackSelections_transaction(db, rec) ==
    LET res == UpdateAll(db.items, techsArray(rec.dto))
    IN IF res.failed
       THEN Done(db, rec, "Error")
       ELSE Done([db EXCEPT !.items = res.items], rec, "ok")

\* ------------------------------------------------ getAllTechItemsByTeamId
\* the team ids a read may carry: those of the voyageTeam rows and one more
TeamIds == Teams \cup {Cardinality(Teams) + 1}

\* this.validateTeamId(teamId) is called and not awaited: its promise
\* (guard) is pending while the handler goes on to its findMany
getAllTechItemsByTeamId_call(team) ==
    [Idle EXCEPT !.pc = "findMany", !.op = "getAllTechItemsByTeamId",
                 !.team = team, !.guard = "pending"]

\* prisma.voyageTeam.findUnique resolves: validateTeamId returns, or throws
\* NotFoundException into its own promise, which nobody awaits
validateTeamId(db, rec) ==
    [db |-> db,
     rec |-> [rec EXCEPT !.guard = IF rec.team \in Teams THEN "resolved"
                                   ELSE "rejected"]]

\* teamTechStackItems: {where: {voyageTeamId: teamId}} of every category
Catalog(db, team) ==
    { i \in DOMAIN db.items : ItemExists(db, i)
                               /\ db.items[i].voyageTeamId = team }

\* prisma.techStackCategory.findMany resolves and is the handler's response
getAllTechItemsByTeamId_findMany(db, rec) ==
    Done(db, [rec EXCEPT !.result = Catalog(db, rec.team)], "ok")

\* ------------------------------------------------------------ scheduling
\* the storage call a task is waiting on, applied to the store
StepOf(db, rec) ==
    CASE rec.op = "addNewTeamTech" /\ rec.pc = "findMember" ->
             addNewTeamTech_findMember(db, rec)
      [] rec.op = "addNewTeamTech" /\ rec.pc = "createItem" ->
             addNewTeamTech_createItem(db, rec)
      [] rec.op = "addNewTeamTech" /\ rec.pc = "createVote" ->
             addNewTeamTech_createVote(db, rec)
      [] rec.op = "addExistingTechVote" /\ rec.pc = "findItem" ->
             addExistingTechVote_findItem(db, rec)
      [] rec.op = "addExistingTechVote" /\ rec.pc = "findMember" ->
             addExistingTechVote_findMember(db, rec)
      [] rec.op = "addExistingTechVote" /\ rec.pc = "createVote" ->
             addExistingTechVote_createVote(db, rec)
      [] rec.op = "removeVote" /\ rec.pc = "findMember" ->
             removeVote_findMember(db, rec)
      [] rec.op = "removeVote" /\ rec.pc = "deleteVote" ->
             removeVote_deleteVote(db, rec)
      [] rec.op = "removeVote" /\ rec.pc = "findItem" ->
             removeVote_findItem(db, rec)
      [] rec.op = "removeVote" /\ rec.pc = "deleteItem" ->
             removeVote_deleteItem(db, rec)
      [] rec.op = "updateTechStackSelections" /\ rec.pc = "validate" ->
             updateTechStackSelections_validate(db, rec)
      [] rec.op = "updateTechStackSelections" /\ rec.pc = "transaction" ->
             updateTechStackSelections_transaction(db, rec)

\* the autoincrement of teamTechStackItem is capped at MaxItems
CanStep(db, rec) ==
    /\ rec.pc \notin {"idle", "done"}
    /\ (rec.op = "addNewTeamTech" /\ rec.pc = "createItem"
        /\ ItemCreateError(db, rec.name, rec.team, rec.cat) = "none")
       => db.nextId <= MaxItems

\* a handler from its call to its response, no other request in between
RECURSIVE Run(_, _)
Run(db, rec) ==
    IF CanStep(db, rec)
    THEN LET res == StepOf(db, rec) IN Run(res.db, res.rec)
    ELSE [db |-> db, rec |-> rec]

Commit(r, res) ==
    /\ items' = res.db.items
    /\ votes' = res.db.votes
    /\ nextId' = res.db.nextId
    /\ req' = [req EXCEPT ![r] = res.rec]
    /\ UNCHANGED fkOnDelete

\* task r is called with the request rec and performs its first storage call
Call(r, rec) == Commit(r, StepOf(DB, rec))

\* task r waits on the storage call label of handler op
Waits(r, op, label) ==
    /\ req[r].op = op
    /\ req[r].pc = label
    /\ CanStep(DB, req[r])

\* task r runs the request rec from call to response
Serve(r, rec) ==
    /\ LET res == Run(DB, rec)
       IN /\ res.rec.pc = "done"
          /\ Commit(r, res)

\* the caller has read the response; the task takes a new request
Return(r) ==
    /\ req[r].pc = "done"
    /\ req' = [req EXCEPT ![r] = Idle]
    /\ UNCHANGED <<items, votes, nextId, fkOnDelete>>

\* ------------------------------------ concurrent requests, step by step
Init ==
    /\ items = [i \in ItemIds |-> NoItem]
    /\ votes = [p \in ItemIds \X MemberIds |-> 0]
    /\ nextId = 1
    /\ fkOnDelete \in OnDeleteModes
    /\ req = [r \in Req |-> Idle]

ProposeCall(r) ==
    /\ req[r].pc = "idle"
    /\ \E u \in Users, t \in Teams, n \in Names, c \in Categories :
           Call(r, addNewTeamTech_call(u, t, n, c))

ProposeCreateItem(r) ==
    /\ Waits(r, "addNewTeamTech", "createItem")
    /\ Commit(r, StepOf(DB, req[r]))

ProposeCreateVote(r) ==
    /\ Waits(r, "addNewTeamTech", "createVote")
    /\ Commit(r, StepOf(DB, req[r]))

AddVoteCall(r) ==
    /\ req[r].pc = "idle"
    /\ \E u \in Users, t \in Teams, i \in ItemIds :
           Call(r, addExistingTechVote_call(u, t, i))

AddVoteFindMember(r) ==
    /\ Waits(r, "addExistingTechVote", "findMember")
    /\ Commit(r, StepOf(DB, req[r]))

AddVoteCreateVote(r) ==
    /\ Waits(r, "addExistingTechVote", "createVote")
    /\ Commit(r, StepOf(DB, req[r]))

RemoveVoteCall(r) ==
    /\ req[r].pc = "idle"
    /\ \E u \in Users, t \in Teams, i \in ItemIds :
           Call(r, removeVote_call(u, t, i))

RemoveVoteDeleteVote(r) ==
    /\ Waits(r, "removeVote", "deleteVote")
    /\ Commit(r, StepOf(DB, req[r]))

RemoveVoteFindItem(r) ==
    /\ Waits(r, "removeVote", "findItem")
    /\ Commit(r, StepOf(DB, req[r]))

RemoveVoteDeleteItem(r) ==
    /\ Waits(r, "removeVote", "deleteItem")
    /\ Commit(r, StepOf(DB, req[r]))

Next ==
    \/ \E r \in Req : ProposeCall(r)
    \/ \E r \in Req : ProposeCreateItem(r)
    \/ \E r \in Req : ProposeCreateVote(r)
    \/ \E r \in Req : AddVoteCall(r)
    \/ \E r \in Req : AddVoteFindMember(r)
    \/ \E r \in Req : AddVoteCreateVote(r)
    \/ \E r \in Req : RemoveVoteCall(r)
    \/ \E r \in Req : RemoveVoteDeleteVote(r)
    \/ \E r \in Req : RemoveVoteFindItem(r)
    \/ \E r \in Req : RemoveVoteDeleteItem(r)
    \/ \E r \in Req : Return(r)

Spec == Init /\ [][Next]_vars

\* ------------------------------ requests served one at a time, in full
ProposeTech(r) ==
    /\ req[r].pc = "idle"
    /\ \E u \in Users, t \in Teams, n \in Names, c \in Categories :
           Serve(r, addNewTeamTech_call(u, t, n, c))

AddVote(r) ==
    /\ req[r].pc = "idle"
    /\ \E u \in Users, t \in Teams, i \in ItemIds :
           Serve(r, addExistingTechVote_call(u, t, i))

RemoveVote(r) ==
    /\ req[r].pc = "idle"
    /\ \E u \in Users, t \in Teams, i \in ItemIds :
           Serve(r, removeVote_call(u, t, i))

NextSerial ==
    \/ \E r \in Req : ProposeTech(r)
    \/ \E r \in Req : AddVote(r)
    \/ \E r \in Req : RemoveVote(r)
    \/ \E r \in Req : Return(r)

SpecSerial == Init /\ [][NextSerial]_vars

\* ------------------------- selection updates over a catalog of proposals
\* the catalog of team 1: in category 1 one more item than the cap allows to
\* select, in category 2 NOtherItems items
NSelItems == MAX_SELECTION_COUNT + 1

SelCategories == {1, 2}

SelItemIds == 1..(NSelItems + NOtherItems)

CategoryOf(i) == IF i <= NSelItems THEN 1 ELSE 2

\* ids a request may name under a category: those of the catalog's items in
\* the category and, under category 2, one that names no item
SelTechIds(c) ==
    IF c = 1 THEN 1..NSelItems
    ELSE (NSelItems + 1)..(NSelItems + NOtherItems + 1)

\* the techs of one category of a request: the ids lo..hi, all selected or
\* all unselected
TechRun(lo, hi, sel) ==
    [j \in 1..(hi - lo + 1) |-> [techId |-> lo + j - 1, isSelected |-> sel]]

CategoryDtos ==
    { [categoryId |-> c, techs |-> TechRun(lo, hi, sel)] :
          c \in SelCategories, lo \in 1..(NSelItems + NOtherItems + 1),
          hi \in 1..(NSelItems + NOtherItems + 1), sel \in BOOLEAN }

WellFormed(c) ==
    \A j \in 1..Len(c.techs) : c.techs[j].techId \in SelTechIds(c.categoryId)

WellFormedDtos == { c \in CategoryDtos : WellFormed(c) }

\* UpdateTechSelectionsDto.categories: one category, or two different ones
SelectionDtos ==
    { <<c>> : c \in WellFormedDtos } \cup
    { <<p[1], p[2]>> :
          p \in { q \in WellFormedDtos \X WellFormedDtos :
                      q[1].categoryId # q[2].categoryId } }

\* the task that serves the selection updates, one request after the other:
\* a request writes in its transaction only, so the store passes through the
\* same states as with any number of tasks
SelTask == CHOOSE r \in Req : \A q \in Req : r <= q

\* every item was proposed by member 1 of team 1 and has that first vote
InitSel ==
    /\ items = [i \in SelItemIds |-> NewItem(i, 1, CategoryOf(i))]
    /\ votes = [p \in SelItemIds \X MemberIds |-> IF p[2] = 1 THEN 1 ELSE 0]
    /\ nextId = NSelItems + NOtherItems + 1
    /\ fkOnDelete \in OnDeleteModes
    /\ req = [r \in Req |-> Idle]

UpdateSelectionsCall(r) ==
    /\ req[r].pc = "idle"
    /\ \E u \in Users, t \in Teams, d \in SelectionDtos :
           Call(r, updateTechStackSelections_call(u, t, d))

UpdateSelectionsTransaction(r) ==
    /\ Waits(r, "updateTechStackSelections", "transaction")
    /\ Commit(r, StepOf(DB, req[r]))

NextSel ==
    \/ UpdateSelectionsCall(SelTask)
    \/ UpdateSelectionsTransaction(SelTask)
    \/ Return(SelTask)

SpecSel == InitSel /\ [][NextSel]_vars

\* ------------------------- addVote requests racing on a proposed item
\* the user whose addVote requests race; the proposers are other members
RaceUser == CHOOSE u \in Users : \A v \in Users : u <= v

Proposers == MemberIds \ { findVoyageMemberId(RaceUser, t) : t \in Teams }

TeamOf(member) ==
    (CHOOSE m \in VoyageTeamMembers : m.id = member).voyageTeamId

\* item 1 was proposed by a member other than the racing user's and has that
\* first vote
InitAddRace ==
    /\ \E p \in Proposers :
          /\ items = [i \in ItemIds |->
                         IF i = 1 THEN NewItem(1, TeamOf(p), 1) ELSE NoItem]
          /\ votes = [q \in ItemIds \X MemberIds |->
                         IF q = <<1, p>> THEN 1 ELSE 0]
    /\ nextId = 2
    /\ fkOnDelete \in OnDeleteModes
    /\ req = [r \in Req |-> Idle]

AddVoteRaceCall(r) ==
    /\ req[r].pc = "idle"
    /\ \E t \in Teams, i \in ItemIds :
           Call(r, addExistingTechVote_call(RaceUser, t, i))

NextAddRace ==
    \/ \E r \in Req : AddVoteRaceCall(r)
    \/ \E r \in Req : AddVoteFindMember(r)
    \/ \E r \in Req : AddVoteCreateVote(r)

SpecAddRace == InitAddRace /\ [][NextAddRace]_vars

\* ------- the four mutating operations, one request at a time, by storage call
\* the requests a selection update carries here: one entry on one id, or the
\* same entry more often than the cap allows to select
GateDtos ==
    { <<[categoryId |-> c,
         techs |-> [j \in 1..n |-> [techId |-> i, isSelected |-> sel]]]>> :
          c \in Categories, i \in ItemIds, sel \in BOOLEAN,
          n \in {1, MAX_SELECTION_COUNT + 1} }

UpdateSelectionsGateCall(r) ==
    /\ req[r].pc = "idle"
    /\ \E u \in Users, t \in Teams, d \in GateDtos :
           Call(r, updateTechStackSelections_call(u, t, d))

NextGate ==
    \/ ProposeCall(SelTask)
    \/ ProposeCreateItem(SelTask)
    \/ ProposeCreateVote(SelTask)
    \/ AddVoteCall(SelTask)
    \/ AddVoteFindMember(SelTask)
    \/ AddVoteCreateVote(SelTask)
    \/ RemoveVoteCall(SelTask)
    \/ RemoveVoteDeleteVote(SelTask)
    \/ RemoveVoteFindItem(SelTask)
    \/ RemoveVoteDeleteItem(SelTask)
    \/ UpdateSelectionsGateCall(SelTask)
    \/ UpdateSelectionsTransaction(SelTask)
    \/ Return(SelTask)

SpecGate == Init /\ [][NextGate]_vars

\* ------------------------------------------- reads of a team's catalog
ListCall(r) ==
    /\ req[r].pc = "idle"
    /\ \E t \in TeamIds :
           req' = [req EXCEPT ![r] = getAllTechItemsByTeamId_call(t)]
    /\ UNCHANGED <<items, votes, nextId, fkOnDelete>>

\* the two queries of a read are in flight together and resolve in any order
ListValidateTeamId(r) ==
    /\ req[r].op = "getAllTechItemsByTeamId"
    /\ req[r].guard = "pending"
    /\ Commit(r, validateTeamId(DB, req[r]))

ListFindMany(r) ==
    /\ req[r].op = "getAllTechItemsByTeamId"
    /\ req[r].pc = "findMany"
    /\ Commit(r, getAllTechItemsByTeamId_findMany(DB, req[r]))

\* the rejection of the promise that nobody awaits reaches the runtime, which
\* by default ends the process: the requests in flight get no response
ListUnhandledRejection(r) ==
    /\ req[r].guard = "rejected"
    /\ req' = [q \in Req |->
                  IF q = r
                  THEN [req[q] EXCEPT
                           !.guard = "unhandled",
                           !.pc = "done",
                           !.out = IF req[q].pc = "done" THEN req[q].out
                                   ELSE "NoResponse"]
                  ELSE IF req[q].pc \in {"idle", "done"} THEN req[q]
                  ELSE [req[q] EXCEPT !.pc = "done", !.out = "NoResponse",
                                      !.guard = "none"]]
    /\ UNCHANGED <<items, votes, nextId, fkOnDelete>>

\* with unhandled rejections only reported, the process goes on
ListRejectionReported(r) ==
    /\ req[r].guard = "rejected"
    /\ req' = [req EXCEPT ![r].guard = "reported"]
    /\ UNCHANGED <<items, votes, nextId, fkOnDelete>>

ListReturn(r) ==
    /\ req[r].guard \notin {"pending", "rejected"}
    /\ Return(r)

NextRead ==
    \/ \E r \in Req : ListCall(r)
    \/ \E r \in Req : ListValidateTeamId(r)
    \/ \E r \in Req : ListFindMany(r)
    \/ \E r \in Req : ListUnhandledRejection(r)
    \/ \E r \in Req : ListRejectionReported(r)
    \/ \E r \in Req : ListReturn(r)

SpecRead == InitSel /\ [][NextRead]_vars

\* --------------------------------- proposals racing on the names of a team
\* every task makes one proposal; nothing else runs
NextProposeRace ==
    \/ \E r \in Req : ProposeCall(r)
    \/ \E r \in Req : ProposeCreateItem(r)
    \/ \E r \in Req : ProposeCreateVote(r)

SpecProposeRace == Init /\ [][NextProposeRace]_vars

\* ------------------------------- selection updates racing on the catalog
\* the catalog before the race: the first item is selected, the others not
PriorItems ==
    [i \in SelItemIds |->
        [NewItem(i, 1, CategoryOf(i)) EXCEPT
            !.isSelected = (\A j \in SelItemIds : i <= j)]]

\* the requests of the race list items of the first category
RaceDtos == { <<c>> : c \in { d \in WellFormedDtos :
                                  d.categoryId = CategoryOf(NSelItems) } }

InitSelRace ==
    /\ items = PriorItems
    /\ votes = [p \in SelItemIds \X MemberIds |-> IF p[2] = 1 THEN 1 ELSE 0]
    /\ nextId = NSelItems + NOtherItems + 1
    /\ fkOnDelete \in OnDeleteModes
    /\ req = [r \in Req |-> Idle]

UpdateSelectionsRaceCall(r) ==
    /\ req[r].pc = "idle"
    /\ \E u \in Users, t \in Teams, d \in RaceDtos :
           Call(r, updateTechStackSelections_call(u, t, d))

\* every task makes one call
NextSelRace ==
    \/ \E r \in Req : UpdateSelectionsRaceCall(r)
    \/ \E r \in Req : UpdateSelectionsTransaction(r)

SpecSelRace == InitSelRace /\ [][NextSelRace]_vars

\* ===================================================================
\* Properties
\* ===================================================================
InFlight(r) == req[r].pc \notin {"idle", "done"}

Quiescent == \A r \in Req : ~InFlight(r)

\* task r receives its response in this step
Responds(r) == req[r].pc # "done" /\ req'[r].pc = "done"

\* task r is served from call to response in this step
Served(r, op) ==
    req[r].pc = "idle" /\ req'[r].pc = "done" /\ req'[r].op = op

\* C1: in every store state that the interleaved proposeTech, addVote and
\* removeVote requests reach, every existing TeamTechStackItem has at least
\* one vote.
C1_ZeroVoteInvariant ==
    \A i \in DOMAIN items : ItemExists(DB, i) => VoteCount(DB, i) >= 1

\* C2: there is never more than one vote record for a (member, item) pair,
\* and an addVote whose insert finds the member's vote on the item already
\* there fails with Conflict and leaves votes and items as they were.
C2_VoteUniqueness ==
    /\ [](\A p \in DOMAIN votes : votes[p] <= 1)
    /\ [][\A r \in Req :
            ( /\ req[r].op = "addExistingTechVote"
              /\ req[r].pc = "createVote"
              /\ Responds(r)
              /\ votes[<<req[r].tech, req[r].member>>] >= 1 )
            => ( /\ req'[r].out = "Conflict"
                 /\ votes' = votes
                 /\ items' = items )]_vars

C2_Witness ==
    \E r \in Req :
        /\ req[r].pc = "done"
        /\ req[r].op = "addExistingTechVote"
        /\ req[r].out = "Conflict"
        /\ votes[<<req[r].tech, req[r].member>>] = 1

\* C5: the count-and-maybe-delete of a removeVote is serialized against the
\* vote inserts on its item: while a removeVote waits between its read of the
\* remaining votes and its delete of the item, no other member's vote is
\* inserted on the item; and a vote whose addVote returned success leaves the store only in a
\* step of its own member's removeVote, never in another member's.
C5_CascadeSerialized ==
    [][/\ \A r \in Req :
             (req[r].op = "removeVote" /\ req[r].pc = "deleteItem")
             => \A m \in MemberIds \ {req[r].member} :
                    votes'[<<req[r].tech, m>>] <= votes[<<req[r].tech, m>>]
       /\ \A a \in Req :
             ( /\ req[a].pc = "done"
               /\ req[a].op = "addExistingTechVote"
               /\ req[a].out = "ok"
               /\ votes[<<req[a].tech, req[a].member>>] >= 1 )
             => \/ votes'[<<req[a].tech, req[a].member>>] >= 1
                \/ \E r \in Req :
                       /\ req[r].op = "removeVote"
                       /\ req[r].member = req[a].member
                       /\ req'[r] # req[r]]_vars

\* C6: once two removeVote requests of two different members on the same
\* item have both been answered and no request is in flight, the item is not
\* gone with a vote still naming it, and is not there with no vote.
C6_ConcurrentRemove ==
    \A r1 \in Req, r2 \in Req :
        ( /\ r1 # r2
          /\ Quiescent
          /\ req[r1].pc = "done" /\ req[r1].op = "removeVote"
          /\ req[r2].pc = "done" /\ req[r2].op = "removeVote"
          /\ req[r1].tech = req[r2].tech
          /\ req[r1].member # 0 /\ req[r2].member # 0
          /\ req[r1].member # req[r2].member )
        => LET i == req[r1].tech
           IN /\ ~ItemExists(DB, i) => Voters(DB, i) = {}
              /\ ItemExists(DB, i) => Voters(DB, i) # {}

\* both requests deleted their vote; the first deleted the item before the
\* second read it
C6_Witness ==
    \E r1 \in Req, r2 \in Req :
        /\ req[r1].pc = "done" /\ req[r1].op = "removeVote"
        /\ req[r2].pc = "done" /\ req[r2].op = "removeVote"
        /\ req[r1].tech = req[r2].tech
        /\ req[r1].member # 0 /\ req[r2].member # 0
        /\ req[r1].member # req[r2].member
        /\ req[r1].out = "voteAndItemDeleted"
        /\ req[r2].out \in {"Error", "NotFound", "voteDeleted"}
        /\ ~ItemExists(DB, req[r1].tech)
        /\ Quiescent

C3_ConcurrentAddVote ==
    \A i \in ItemIds, m \in MemberIds :
        LET answered == { r \in Req : /\ req[r].pc = "done"
                                       /\ req[r].op = "addExistingTechVote"
                                       /\ req[r].tech = i
                                       /\ req[r].member = m }
        IN Cardinality(answered) >= 2
           => /\ Cardinality({ r \in answered : req[r].out = "ok" }) = 1
              /\ \A r \in answered : req[r].out \in {"ok", "Conflict"}
              /\ votes[<<i, m>>] = 1

C3_Witness ==
    \E r1 \in Req, r2 \in Req :
        /\ req[r1].pc = "done" /\ req[r2].pc = "done"
        /\ req[r1].tech = req[r2].tech
        /\ req[r1].member = req[r2].member
        /\ req[r1].member # 0
        /\ req[r1].out = "ok"
        /\ req[r2].out = "Conflict"
        /\ votes[<<req[r1].tech, req[r1].member>>] = 1

\* C4: a removeVote served with no other request in between, by a member
\* who has a vote on the item: when that vote is the item's only one, the
\* vote and the item are deleted and the response says so; when the item has
\* other votes, only the caller's vote is deleted, the item and every other
\* vote stay, and the response says the vote was deleted.
C4_Cascade ==
    [][\A r \in Req :
          ( /\ Served(r, "removeVote")
            /\ req'[r].member # 0
            /\ votes[<<req'[r].tech, req'[r].member>>] >= 1 )
          => LET i == req'[r].tech
                 m == req'[r].member
             IN IF Voters(DB, i) = {m}
                THEN /\ req'[r].out = "voteAndItemDeleted"
                     /\ items' = [items EXCEPT ![i] = NoItem]
                     /\ votes' = [votes EXCEPT ![<<i, m>>] = 0]
                ELSE /\ req'[r].out = "voteDeleted"
                     /\ items' = items
                     /\ votes' = [votes EXCEPT ![<<i, m>>] = 0]]_vars

\* one response of each kind
C4_Witness ==
    \E r1 \in Req, r2 \in Req :
        /\ req[r1].pc = "done" /\ req[r1].op = "removeVote"
        /\ req[r1].out = "voteAndItemDeleted"
        /\ ~ItemExists(DB, req[r1].tech)
        /\ req[r2].pc = "done" /\ req[r2].op = "removeVote"
        /\ req[r2].out = "voteDeleted"
        /\ ItemExists(DB, req[r2].tech)
        /\ Voters(DB, req[r2].tech) # {}

\* the items of a team and a category that are selected
SelectedItems(team, cat) ==
    { i \in DOMAIN items : /\ ItemExists(DB, i)
                            /\ items[i].voyageTeamId = team
                            /\ items[i].categoryId = cat
                            /\ items[i].isSelected }

\* C7: for every team and every category, at most MAX_SELECTION_COUNT of the
\* team's items in the category are selected.
C7_SelectionCap ==
    \A t \in Teams, c \in SelCategories :
        Cardinality(SelectedItems(t, c)) <= MAX_SELECTION_COUNT

\* the entries of category k of a request that ask for isSelected = true
SelectedEntries(dto, k) ==
    { j \in 1..Len(dto[k].techs) : dto[k].techs[j].isSelected }

OverCap(dto) ==
    \E k \in 1..Len(dto) :
        Cardinality(SelectedEntries(dto, k)) > MAX_SELECTION_COUNT

\* C8: an updateSelections request with a category of more than
\* MAX_SELECTION_COUNT selected entries is answered BadRequest at once, with
\* no item and no vote changed.
C8_CapRejection ==
    [][\A r \in Req :
          ( /\ req[r].pc = "idle"
            /\ req'[r].op = "updateTechStackSelections"
            /\ OverCap(req'[r].dto) )
          => /\ req'[r].pc = "done"
             /\ req'[r].out = "BadRequest"
             /\ items' = items
             /\ votes' = votes]_vars

\* a rejected request whose other, within-cap category asks for a change
C8_Witness ==
    \E r \in Req :
        /\ req[r].pc = "done"
        /\ req[r].op = "updateTechStackSelections"
        /\ req[r].out = "BadRequest"
        /\ findVoyageMemberId(req[r].user, req[r].team) # 0
        /\ Len(req[r].dto) = 2
        /\ \E k \in 1..2 :
              /\ Cardinality(SelectedEntries(req[r].dto, k))
                     <= MAX_SELECTION_COUNT
              /\ \E j \in 1..Len(req[r].dto[k].techs) :
                    LET tech == req[r].dto[k].techs[j]
                    IN /\ ItemExists(DB, tech.techId)
                       /\ items[tech.techId].isSelected # tech.isSelected

\* the positions <<category, entry>> of a request that name item i
EntriesOf(dto, i) ==
    { p \in UNION { { <<k, j>> : j \in 1..Len(dto[k].techs) } :
                        k \in 1..Len(dto) } :
          dto[p[1]].techs[p[2]].techId = i }

ListedIds(dto) ==
    UNION { { dto[k].techs[j].techId : j \in 1..Len(dto[k].techs) } :
                k \in 1..Len(dto) }

\* the value the last entry that names item i asks for
Requested(dto, i) ==
    LET last == CHOOSE p \in EntriesOf(dto, i) :
                    \A q \in EntriesOf(dto, i) :
                        q[1] < p[1] \/ (q[1] = p[1] /\ q[2] <= p[2])
    IN dto[last[1]].techs[last[2]].isSelected

\* C9: the transaction of an updateSelections call sets the isSelected flag
\* of every listed item to its requested value and leaves the other items
\* alone, or (a listed techId names no item) changes nothing; no other step
\* changes an item.
C9_AtomicSelection ==
    [][/\ \A r \in Req :
             ( /\ req[r].op = "updateTechStackSelections"
               /\ req[r].pc = "transaction"
               /\ Responds(r) )
             => LET dto == req[r].dto
                IN IF \A i \in ListedIds(dto) : ItemExists(DB, i)
                   THEN /\ req'[r].out = "ok"
                        /\ items' =
                             [i \in DOMAIN items |->
                                 IF i \in ListedIds(dto)
                                 THEN [items[i] EXCEPT
                                          !.isSelected = Requested(dto, i)]
                                 ELSE items[i]]
                   ELSE /\ req'[r].out = "Error"
                        /\ items' = items
       /\ items' # items
             => \E r \in Req : /\ req[r].op = "updateTechStackSelections"
                               /\ req[r].pc = "transaction"
                               /\ Responds(r)]_vars

\* a failed transaction that had an update to make before the failing one
C9_Witness ==
    \E r \in Req :
        /\ req[r].pc = "done"
        /\ req[r].op = "updateTechStackSelections"
        /\ req[r].out = "Error"
        /\ \E i \in ListedIds(req[r].dto) :
              /\ ItemExists(DB, i)
              /\ items[i].isSelected # Requested(req[r].dto, i)

\* the caller of the request that task r holds has no membership record in
\* the request's team
NonMember(rec) == rec.op # "none" /\ findVoyageMemberId(rec.user, rec.team) = 0

\* C11: every storage call of a proposeTech, addVote, removeVote or
\* updateSelections request whose caller has no membership record in the
\* target team leaves items (with their isSelected flags) and votes as they
\* were, and the request's response is BadRequest.
C11_IdentityGate ==
    [][\A r \in Req :
          (req'[r] # req[r] /\ NonMember(req'[r]))
          => /\ items' = items
             /\ votes' = votes
             /\ nextId' = nextId
             /\ req'[r].pc = "done" => req'[r].out = "BadRequest"]_vars

\* a caller who is no member of the team was answered on a selection update
\* that is within the cap and asks to change the flag of an item in the store
C11_Witness ==
    \E r \in Req :
        /\ req[r].pc = "done"
        /\ NonMember(req[r])
        /\ req[r].out = "BadRequest"
        /\ req[r].op = "updateTechStackSelections"
        /\ ~ExceedsCap(req[r].dto[1].techs)
        /\ ItemExists(DB, req[r].dto[1].techs[1].techId)
        /\ items[req[r].dto[1].techs[1].techId].isSelected
               # req[r].dto[1].techs[1].isSelected

\* the three kinds of failure
ErrorKinds == {"NotFound", "BadRequest", "Conflict"}

Successes == {"ok", "voteDeleted", "voteAndItemDeleted"}

\* C12: under every interleaving of proposeTech, addVote and removeVote
\* requests, every response that is not a success is NotFound, BadRequest or
\* Conflict; a removeVote or addVote whose item another request's cascade
\* deletes between its storage calls is answered so too.
C12_ClosedTaxonomy ==
    \A r \in Req :
        req[r].pc = "done" => req[r].out \in Successes \cup ErrorKinds

\* C13: a getAllTechItemsByTeamId call with a teamId of no voyageTeam row is
\* answered NotFound and with no catalog, and no call is answered with a
\* catalog while its check of the team is still pending.
C13_TeamGuard ==
    \A r \in Req :
        (req[r].op = "getAllTechItemsByTeamId" /\ req[r].pc = "done")
        => /\ req[r].team \notin Teams => req[r].out = "NotFound"
           /\ req[r].out = "ok" => req[r].guard # "pending"

\* the existing items with the key (name, team, category)
ItemsWithKey(name, team, cat) ==
    { i \in DOMAIN items : /\ ItemExists(DB, i)
                            /\ items[i].name = name
                            /\ items[i].voyageTeamId = team
                            /\ items[i].categoryId = cat }

\* the proposals of members with the key (name, team, category)
Proposed(name, team, cat) ==
    { r \in Req : /\ req[r].op = "addNewTeamTech"
                   /\ req[r].member # 0
                   /\ req[r].name = name
                   /\ req[r].team = team
                   /\ req[r].cat = cat }

\* C14: no two items share (team, category, name); a proposal whose item
\* create finds the name already proposed in the team and category is
\* answered Conflict and changes nothing; and of the proposals that race on
\* one (team, category, name), once all are answered, exactly one has
\* succeeded and every other one was answered Conflict.
C14_NameUniqueness ==
    /\ [](\A n \in Names, t \in Teams, c \in Categories :
             Cardinality(ItemsWithKey(n, t, c)) <= 1)
    /\ [][\A r \in Req :
            ( /\ req[r].op = "addNewTeamTech"
              /\ req[r].pc = "createItem"
              /\ req'[r] # req[r]
              /\ ItemsWithKey(req[r].name, req[r].team, req[r].cat) # {} )
            => ( /\ req'[r].pc = "done"
                 /\ req'[r].out = "Conflict"
                 /\ items' = items
                 /\ votes' = votes )]_vars
    /\ [](\A n \in Names, t \in Teams, c \in Categories :
             ( /\ Cardinality(Proposed(n, t, c)) >= 2
               /\ \A r \in Proposed(n, t, c) : req[r].pc = "done" )
             => /\ Cardinality({ r \in Proposed(n, t, c) :
                                    req[r].out = "ok" }) = 1
                /\ \A r \in Proposed(n, t, c) :
                       req[r].out \in {"ok", "Conflict"})

\* two members of one team proposed the same name in the same category
C14_Witness ==
    \E r1 \in Req, r2 \in Req :
        /\ req[r1].pc = "done" /\ req[r1].op = "addNewTeamTech"
        /\ req[r2].pc = "done" /\ req[r2].op = "addNewTeamTech"
        /\ req[r1].name = req[r2].name
        /\ req[r1].team = req[r2].team
        /\ req[r1].cat = req[r2].cat
        /\ req[r1].member # 0 /\ req[r2].member # 0
        /\ req[r1].member # req[r2].member
        /\ req[r1].out = "ok"
        /\ req[r2].out = "Conflict"
        /\ Cardinality(ItemsWithKey(req[r1].name, req[r1].team,
                                    req[r1].cat)) = 1

\* C15: a removeVote whose member has no vote on the item is answered
\* NotFound at its vote delete and leaves every vote and every item as it
\* was; it does not go on to the check of the remaining votes.
C15_RemoveWithoutVote ==
    [][\A r \in Req :
          ( /\ req[r].op = "removeVote"
            /\ req[r].pc = "deleteVote"
            /\ req'[r] # req[r]
            /\ votes[<<req[r].tech, req[r].member>>] = 0 )
          => ( /\ req'[r].pc = "done"
               /\ req'[r].out = "NotFound"
               /\ votes' = votes
               /\ items' = items )]_vars

\* the item is there with another member's vote only
C15_Witness ==
    \E r \in Req :
        /\ req[r].pc = "done"
        /\ req[r].op = "removeVote"
        /\ req[r].out = "NotFound"
        /\ ItemExists(DB, req[r].tech)
        /\ Voters(DB, req[r].tech) # {}
        /\ req[r].member \notin Voters(DB, req[r].tech)

\* the items after one call with the request dto, made alone on the items its
Applied(its, dto) ==
    [i \in DOMAIN its |->
        IF i \in ListedIds(dto)
        THEN [its[i] EXCEPT !.isSelected = Requested(dto, i)]
        ELSE its[i]]

\* the items after the calls of the tasks S, made one after the other on the
\* items its, in every order
RECURSIVE SerialResults(_, _)
SerialResults(S, its) ==
    IF S = {} THEN {its}
    ELSE UNION { SerialResults(S \ {r}, Applied(its, req[r].dto)) : r \in S }

\* the updateSelections calls that were answered with success
Updated ==
    { r \in Req : /\ req[r].pc = "done"
                   /\ req[r].op = "updateTechStackSelections"
                   /\ req[r].out = "ok" }

\* C16: after concurrent successful updateSelections calls, every item that
\* one of them lists has the isSelected value that one of the calls listing
\* it asked for, every unlisted item has its prior flag, and the items are
\* what the calls give when made one after the other in one of the orders.
C16_OverlappingUpdates ==
    Cardinality(Updated) >= 2
    => /\ \A i \in DOMAIN items :
             IF \E r \in Updated : i \in ListedIds(req[r].dto)
             THEN \E r \in Updated :
                      /\ i \in ListedIds(req[r].dto)
                      /\ items[i].isSelected = Requested(req[r].dto, i)
             ELSE items[i] = PriorItems[i]
       /\ items \in SerialResults(Updated, PriorItems)

\* two calls that list a common item with different values and each an item
\* of its own
C16_Witness ==
    \E r1 \in Updated, r2 \in Updated :
        /\ r1 # r2
        /\ \E i \in ListedIds(req[r1].dto) \cap ListedIds(req[r2].dto) :
               Requested(req[r1].dto, i) # Requested(req[r2].dto, i)
        /\ ListedIds(req[r1].dto) \ ListedIds(req[r2].dto) # {}
        /\ ListedIds(req[r2].dto) \ ListedIds(req[r1].dto) # {}

\* C17: every vote in the store names an item in the store; an addVote whose
\* item is gone when its insert runs stores no vote.
C17_VotesReferItems ==
    /\ [](\A p \in DOMAIN votes : votes[p] >= 1 => ItemExists(DB, p[1]))
    /\ [][\A r \in Req :
            ( /\ req[r].op = "addExistingTechVote"
              /\ req[r].pc = "createVote"
              /\ req'[r] # req[r]
              /\ ~ItemExists(DB, req[r].tech) )
            => ( /\ req'[r].pc = "done"
                 /\ req'[r].out # "ok"
                 /\ votes' = votes
                 /\ items' = items )]_vars

\* an addVote that passed its check of the item and found the item gone at
\* its insert
C17_Witness ==
    \E r \in Req :
        /\ req[r].pc = "done"
        /\ req[r].op = "addExistingTechVote"
        /\ req[r].member # 0
        /\ req[r].out = "Error"
        /\ ~ItemExists(DB, req[r].tech)
        /\ Voters(DB, req[r].tech) = {}

\* C18: every vote's member is a member of the team that owns the voted
\* item: no addVote or removeVote made for a team reaches an item of another
\* team.
C18_VotesWithinTeam ==
    \A i \in ItemIds, m \in MemberIds :
        (ItemExists(DB, i) /\ votes[<<i, m>>] >= 1)
        => TeamOf(m) = items[i].voyageTeamId

\* C19: the transaction of an updateSelections call for a team changes
\* nothing but the isSelected flags of listed items, creates and deletes no
\* item and no vote, and changes no flag of an item of another team.
C19_SelectionWithinTeam ==
    [][\A r \in Req :
          ( /\ req[r].op = "updateTechStackSelections"
            /\ req'[r] # req[r] )
          => /\ votes' = votes
             /\ nextId' = nextId
             /\ \A i \in DOMAIN items :
                   /\ ItemExists(DB', i) <=> ItemExists(DB, i)
                   /\ items'[i] # items[i]
                      => /\ i \in ListedIds(req[r].dto)
                         /\ items'[i] = [items[i] EXCEPT
                                            !.isSelected = ~items[i].isSelected]
                         /\ items[i].voyageTeamId = req[r].team]_vars

====
